---- MODULE Spec2Model ----
(***************************************************************************)
(* Model of core/types.rs: the OwnedValue data model, its comparator and   *)
(* arithmetic, the SerialType classification and OwnedRecord::serialize.   *)
(*                                                                         *)
(* Representation.  TLC integers are 32 bits wide, so an i64 is modelled   *)
(* as its 8 bytes in big-endian two's complement and an f64 as the 8 bytes *)
(* of its IEEE-754 binary64 pattern, most significant byte first.  A       *)
(* String or Vec<u8> is the sequence of its bytes.  Lengths, serial-type   *)
(* codes and header sizes stay far below 2^31 for the inputs drawn here    *)
(* and are ordinary integers.                                              *)
(***************************************************************************)
EXTENDS Integers, Sequences, FiniteSets, TLC

VARIABLES call, pc, ret, buf

vars == <<call, pc, ret, buf>>

(***************************************************************************)
(* Bytes and bits                                                          *)
(***************************************************************************)
Zeros(n) == [k \in 1..n |-> 0]

Ones(n) == [k \in 1..n |-> 1]

BytesToBits(bs) ==
  [k \in 1..(8 * Len(bs)) |-> (bs[((k - 1) \div 8) + 1] \div (2 ^ (7 - ((k - 1) % 8)))) % 2]

BitsToBytes(bits) ==
  [j \in 1..(Len(bits) \div 8) |->
      LET o == 8 * (j - 1) IN
      128 * bits[o + 1] + 64 * bits[o + 2] + 32 * bits[o + 3] + 16 * bits[o + 4]
        + 8 * bits[o + 5] + 4 * bits[o + 6] + 2 * bits[o + 7] + bits[o + 8]]

\* Bitwise complement of a byte string.
NotBytes(bs) == [k \in 1..Len(bs) |-> 255 - bs[k]]

\* Lexicographic comparison of two sequences of numbers, as the derived
\* ordering of slices, Vec<u8> and str does it.
SeqCmp(a, b) ==
  LET n == IF Len(a) < Len(b) THEN Len(a) ELSE Len(b)
      diff == {k \in 1..n : a[k] # b[k]}
  IN IF diff = {}
       THEN IF Len(a) < Len(b) THEN "Less"
            ELSE IF Len(a) > Len(b) THEN "Greater" ELSE "Equal"
       ELSE LET k == CHOOSE d \in diff : \A e \in diff : d <= e
            IN IF a[k] < b[k] THEN "Less" ELSE "Greater"

(***************************************************************************)
(* i64                                                                     *)
(***************************************************************************)
\* The i64 holding the (32-bit) integer n.
I64(n) ==
  LET m == IF n < 0 THEN -(n + 1) ELSE n
      bs == <<0, 0, 0, 0, (m \div 16777216) % 256, (m \div 65536) % 256,
              (m \div 256) % 256, m % 256>>
  IN IF n < 0 THEN NotBytes(bs) ELSE bs

I64IsNeg(x) == x[1] >= 128

\* Signed comparison of two i64.
I64Cmp(x, y) ==
  IF I64IsNeg(x) # I64IsNeg(y)
    THEN IF I64IsNeg(x) THEN "Less" ELSE "Greater"
    ELSE SeqCmp(x, y)

I64Le(x, y) == I64Cmp(x, y) # "Greater"

I64Ge(x, y) == I64Cmp(x, y) # "Less"

\* `x as iN` for an N-bit integer of w bytes, as its big-endian bytes.
TruncateBE(x, w) == SubSeq(x, Len(x) - w + 1, Len(x))

(***************************************************************************)
(* Unsigned arithmetic on bit strings (most significant bit first), for    *)
(* the 64-bit and floating-point operations TLC's integers cannot hold     *)
(***************************************************************************)
StripZeros(bits) ==
  LET ones == {k \in 1..Len(bits) : bits[k] = 1}
  IN IF ones = {} THEN <<>>
     ELSE SubSeq(bits, CHOOSE k \in ones : \A j \in ones : k <= j, Len(bits))

PadLeft(bits, n) == Zeros(n - Len(bits)) \o bits

BitsCmp(a, b) ==
  LET x == StripZeros(a)
      y == StripZeros(b)
  IN IF Len(x) < Len(y) THEN "Less"
     ELSE IF Len(x) > Len(y) THEN "Greater"
     ELSE SeqCmp(x, y)

\* Bits lo..hi (counted from the least significant) of x + y, for x and y
\* of one length, carried into st.  The range is halved and the low half
\* evaluated first (low = low holds always), which keeps the evaluation
\* shallow; the bits are added in order all the same.
RECURSIVE AddBits(_, _, _, _, _)
AddBits(x, y, st, lo, hi) ==
  IF lo > hi THEN st
  ELSE IF lo = hi
    THEN LET t == x[Len(x) + 1 - lo] + y[Len(x) + 1 - lo] + st.c
         IN [c |-> t \div 2, out |-> <<t % 2>> \o st.out]
  ELSE LET mid == (lo + hi) \div 2
           low == AddBits(x, y, st, lo, mid)
       IN IF low = low THEN AddBits(x, y, low, mid + 1, hi) ELSE st

\* a + b, one bit longer than the longer operand.
BitsAdd(a, b) ==
  LET n == IF Len(a) > Len(b) THEN Len(a) ELSE Len(b)
      r == AddBits(PadLeft(a, n), PadLeft(b, n), [c |-> 0, out |-> <<>>], 1, n)
  IN <<r.c>> \o r.out

\* Bits lo..hi of x - y, with the borrow in st.
RECURSIVE SubBits(_, _, _, _, _)
SubBits(x, y, st, lo, hi) ==
  IF lo > hi THEN st
  ELSE IF lo = hi
    THEN LET t == x[Len(x) + 1 - lo] - y[Len(x) + 1 - lo] - st.c
         IN [c |-> IF t < 0 THEN 1 ELSE 0, out |-> <<(t + 2) % 2>> \o st.out]
  ELSE LET mid == (lo + hi) \div 2
           low == SubBits(x, y, st, lo, mid)
       IN IF low = low THEN SubBits(x, y, low, mid + 1, hi) ELSE st

\* a - b for a >= b.
BitsSub(a, b) ==
  LET n == IF Len(a) > Len(b) THEN Len(a) ELSE Len(b)
  IN SubBits(PadLeft(a, n), PadLeft(b, n), [c |-> 0, out |-> <<>>], 1, n).out

\* Long division of a by d # 0 over the bits lo..hi of a (counted from the
\* most significant), with quotient and remainder so far in st.
RECURSIVE DivBits(_, _, _, _, _)
DivBits(a, d, st, lo, hi) ==
  IF lo > hi THEN st
  ELSE IF lo = hi
    THEN LET r == StripZeros(st.r \o <<a[lo]>>)
         IN IF BitsCmp(r, d) = "Less"
              THEN [q |-> st.q \o <<0>>, r |-> r]
              ELSE [q |-> st.q \o <<1>>, r |-> StripZeros(BitsSub(r, d))]
  ELSE LET mid == (lo + hi) \div 2
           high == DivBits(a, d, st, lo, mid)
       IN IF high = high THEN DivBits(a, d, high, mid + 1, hi) ELSE st

\* Quotient and remainder of a by b # 0.
BitsDivMod(a, b) == DivBits(a, StripZeros(b), [q |-> <<>>, r |-> <<>>], 1, Len(a))

\* The number a short bit string stands for, and back.
RECURSIVE NatOfBits(_)
NatOfBits(bits) ==
  IF bits = <<>> THEN 0
  ELSE 2 * NatOfBits(SubSeq(bits, 1, Len(bits) - 1)) + bits[Len(bits)]

NatToBits(n, w) == [k \in 1..w |-> (n \div (2 ^ (w - k))) % 2]

(***************************************************************************)
(* i64 arithmetic                                                          *)
(***************************************************************************)
\* |x| as a bit string (2^63 for i64::MIN).
I64Magnitude(x) ==
  IF I64IsNeg(x) THEN StripZeros(BitsAdd(BytesToBits(NotBytes(x)), <<1>>))
  ELSE StripZeros(BytesToBits(x))

\* The i64 of the given sign and magnitude (at most 2^63 if negative).
I64OfMagnitude(neg, mag) ==
  LET bits == PadLeft(StripZeros(mag), 64)
  IN IF neg /\ StripZeros(mag) # <<>>
       THEN BitsToBytes(SubSeq(BitsAdd(BytesToBits(NotBytes(BitsToBytes(bits))), <<1>>), 2, 65))
       ELSE BitsToBytes(bits)

\* x + y: whether the sum overflows i64, and the wrapped sum.
I64Add(x, y) ==
  LET sum == BitsToBytes(SubSeq(BitsAdd(BytesToBits(x), BytesToBits(y)), 2, 65))
  IN [overflow |-> I64IsNeg(x) = I64IsNeg(y) /\ I64IsNeg(sum) # I64IsNeg(x),
      value |-> sum]

I64_ZERO == Zeros(8)

I64_MINUS_ONE == [k \in 1..8 |-> 255]

\* x / y, truncating toward zero; panics on a zero divisor and on
\* i64::MIN / -1.
I64Div(x, y) ==
  IF y = I64_ZERO THEN [panic |-> TRUE]
  ELSE IF x = <<128, 0, 0, 0, 0, 0, 0, 0>> /\ y = I64_MINUS_ONE THEN [panic |-> TRUE]
  ELSE LET q == BitsDivMod(I64Magnitude(x), I64Magnitude(y)).q
       IN [panic |-> FALSE, value |-> I64OfMagnitude(I64IsNeg(x) # I64IsNeg(y), q)]

\* The decimal digits (ASCII) of a magnitude.
RECURSIVE DecimalDigits(_)
DecimalDigits(mag) ==
  LET dm == BitsDivMod(mag, <<1, 0, 1, 0>>)
      digit == <<48 + NatOfBits(dm.r)>>
  IN IF StripZeros(dm.q) = <<>> THEN digit ELSE DecimalDigits(StripZeros(dm.q)) \o digit

\* Mutant: the sign left out.
I64ToString_NoSign(x) == DecimalDigits(I64Magnitude(x))

\* i64::to_string
I64ToString(x) ==
  IF I64IsNeg(x) THEN <<45>> \o DecimalDigits(I64Magnitude(x))
  ELSE DecimalDigits(I64Magnitude(x))

(***************************************************************************)
(* f64 (IEEE-754 binary64, round to nearest even)                          *)
(***************************************************************************)
F64Sign(f) == f[1] \div 128

F64Exp(f) == (f[1] % 128) * 16 + (f[2] \div 16)

F64Frac(f) == SubSeq(BytesToBits(f), 13, 64)

F64IsNaN(f) == F64Exp(f) = 2047 /\ F64Frac(f) # Zeros(52)

F64IsInf(f) == F64Exp(f) = 2047 /\ F64Frac(f) = Zeros(52)

F64IsZero(f) == F64Exp(f) = 0 /\ F64Frac(f) = Zeros(52)

\* A finite f64 is (-1)^sign * F64Mant * 2^F64Pow.
F64Mant(f) == StripZeros((IF F64Exp(f) = 0 THEN <<0>> ELSE <<1>>) \o F64Frac(f))

F64Pow(f) == (IF F64Exp(f) = 0 THEN 1 ELSE F64Exp(f)) - 1075

F64Pack(sign, exp, frac) == BitsToBytes(<<sign>> \o NatToBits(exp, 11) \o frac)

\* The NaN that arithmetic produces.  Sign and payload of a produced NaN
\* depend on the platform; nothing modelled here reads them.
F64_NAN == F64Pack(0, 2047, <<1>> \o Zeros(51))

F64Inf(sign) == F64Pack(sign, 2047, Zeros(52))

F64Zero(sign) == F64Pack(sign, 0, Zeros(52))

\* The f64 nearest to (-1)^sign * (mant [+ a fraction if sticky]) * 2^pow,
\* ties to even.
F64Round(sign, mant, pow, sticky) ==
  LET m == StripZeros(mant)
      len == Len(m)
      top == pow + len - 1
      ulp == IF top - 52 > -1074 THEN top - 52 ELSE -1074
      drop == ulp - pow
      kept == IF drop <= 0 THEN m \o Zeros(-drop)
              ELSE IF drop >= len THEN <<>> ELSE SubSeq(m, 1, len - drop)
      guard == IF drop <= 0 \/ drop > len THEN 0 ELSE m[len - drop + 1]
      rest == IF drop <= 0 THEN sticky
              ELSE IF drop > len THEN TRUE
              ELSE sticky \/ \E k \in (len - drop + 2)..len : m[k] = 1
      lsb == IF kept = <<>> THEN 0 ELSE kept[Len(kept)]
      up == guard = 1 /\ (rest \/ lsb = 1)
      r == StripZeros(IF up THEN BitsAdd(kept, <<1>>) ELSE kept)
      carried == Len(r) = 54
      k == IF carried THEN SubSeq(r, 1, 53) ELSE r
      e == IF carried THEN ulp + 1 ELSE ulp
  IN IF len = 0 \/ k = <<>> THEN F64Zero(sign)
     ELSE IF Len(k) = 53
            THEN IF e + 1075 >= 2047 THEN F64Inf(sign)
                 ELSE F64Pack(sign, e + 1075, SubSeq(k, 2, 53))
     ELSE F64Pack(sign, 0, PadLeft(k, 52))

\* `x as f64` for an i64.
I64ToF64(x) == F64Round(IF I64IsNeg(x) THEN 1 ELSE 0, I64Magnitude(x), 0, FALSE)

\* f64::partial_cmp
F64PartialCmp(x, y) ==
  IF F64IsNaN(x) \/ F64IsNaN(y) THEN "None"
  ELSE IF F64IsZero(x) /\ F64IsZero(y) THEN "Equal"
  ELSE IF F64Sign(x) # F64Sign(y)
         THEN IF F64Sign(x) = 1 THEN "Less" ELSE "Greater"
  ELSE IF F64Sign(x) = 0 THEN SeqCmp(x, y)
  ELSE SeqCmp(y, x)

\* f64 == f64
F64Eq(x, y) == F64PartialCmp(x, y) = "Equal"

\* x + y
F64Add(x, y) ==
  IF F64IsNaN(x) \/ F64IsNaN(y) THEN F64_NAN
  ELSE IF F64IsInf(x)
         THEN IF F64IsInf(y) /\ F64Sign(x) # F64Sign(y) THEN F64_NAN ELSE x
  ELSE IF F64IsInf(y) THEN y
  ELSE LET pow == IF F64Pow(x) < F64Pow(y) THEN F64Pow(x) ELSE F64Pow(y)
           a == F64Mant(x) \o Zeros(F64Pow(x) - pow)
           b == F64Mant(y) \o Zeros(F64Pow(y) - pow)
           c == BitsCmp(a, b)
       IN IF F64Sign(x) = F64Sign(y) THEN F64Round(F64Sign(x), BitsAdd(a, b), pow, FALSE)
          ELSE IF c = "Equal" THEN F64Zero(0)
          ELSE IF c = "Greater" THEN F64Round(F64Sign(x), BitsSub(a, b), pow, FALSE)
          ELSE F64Round(F64Sign(y), BitsSub(b, a), pow, FALSE)

\* x / y
F64Div(x, y) ==
  LET sign == IF F64Sign(x) = F64Sign(y) THEN 0 ELSE 1
  IN IF F64IsNaN(x) \/ F64IsNaN(y) THEN F64_NAN
     ELSE IF F64IsInf(x) THEN IF F64IsInf(y) THEN F64_NAN ELSE F64Inf(sign)
     ELSE IF F64IsInf(y) THEN F64Zero(sign)
     ELSE IF F64IsZero(y) THEN IF F64IsZero(x) THEN F64_NAN ELSE F64Inf(sign)
     ELSE IF F64IsZero(x) THEN F64Zero(sign)
     ELSE LET dm == BitsDivMod(F64Mant(x) \o Zeros(110), F64Mant(y))
          IN F64Round(sign, dm.q, F64Pow(x) - F64Pow(y) - 110, StripZeros(dm.r) # <<>>)

(***************************************************************************)
(* f64 formatting                                                          *)
(***************************************************************************)
StripTrailingZeros(bits) ==
  LET ones == {k \in 1..Len(bits) : bits[k] = 1}
  IN IF ones = {} THEN <<>>
     ELSE SubSeq(bits, 1, CHOOSE k \in ones : \A j \in ones : k >= j)

\* 10^16 as a bit string.
TenTo16 ==
  <<1, 0, 0, 0, 1, 1, 1, 0, 0, 0, 0, 1, 1, 0, 1, 1, 1, 1, 0, 0, 1, 0, 0, 1, 1, 0, 1, 1, 1,
    1, 1, 1, 0, 0, 0, 0, 0, 1, 0, 0, 0, 0, 0, 0, 0, 0, 0, 0, 0, 0, 0, 0, 0, 0>>

\* The next n decimal digits of x / 2^k, for a k-bit string x, after the
\* digits out.
RECURSIVE TimesTen(_, _, _, _)
TimesTen(x, k, out, n) ==
  IF n = 0 THEN out
  ELSE LET x10 == PadLeft(StripZeros(BitsAdd(x \o <<0, 0, 0>>, x \o <<0>>)), k + 4)
           digit == 48 + NatOfBits(SubSeq(x10, 1, 4))
       IN IF digit = digit THEN TimesTen(SubSeq(x10, 5, k + 4), k, out \o <<digit>>, n - 1)
          ELSE out

\* The k decimal digits of frac / 2^k, for a k-bit string frac.
FractionDigits(frac, k) == TimesTen(PadLeft(frac, k), k, <<>>, k)

\* The text `{:?}` gives an f64 (Display of OwnedValue::Float): NaN, inf,
\* -inf, and for a finite number in [1e-4, 1e16) (or zero) whose decimal
\* expansion is exact within 15 significant digits, that expansion with at
\* least one fractional digit.  Other numbers (printed by their shortest
\* round-tripping digits, or in exponent form) are outside this model.
F64ToString(f) ==
  LET minus == IF F64Sign(f) = 1 THEN <<45>> ELSE <<>>
      mant == StripTrailingZeros(F64Mant(f))
      pow == F64Pow(f) + (Len(F64Mant(f)) - Len(mant))
      finite == ~F64IsNaN(f) /\ ~F64IsInf(f) /\ ~F64IsZero(f)
      k == -pow
      whole == IF Len(mant) > k THEN SubSeq(mant, 1, Len(mant) - k) ELSE <<>>
      frac == IF Len(mant) > k THEN SubSeq(mant, Len(mant) - k + 1, Len(mant)) ELSE mant
      fraction == FractionDigits(frac, k)
      leading == IF whole # <<>> THEN 0
                 ELSE Cardinality({j \in 1..k : \A i \in 1..j : fraction[i] = 48})
  IN CASE F64IsNaN(f) -> <<78, 97, 78>>
       [] F64IsInf(f) -> minus \o <<105, 110, 102>>
       [] F64IsZero(f) -> minus \o <<48, 46, 48>>
       [] finite /\ pow >= 0 /\ BitsCmp(mant \o Zeros(pow), TenTo16) = "Less" ->
            minus \o DecimalDigits(mant \o Zeros(pow)) \o <<46, 48>>
       [] finite /\ pow < 0 /\ k <= 15 /\ leading < 4
            /\ (IF whole = <<>> THEN 0 ELSE Len(DecimalDigits(whole))) + k - leading <= 15 ->
            minus \o DecimalDigits(whole) \o <<46>> \o fraction

(***************************************************************************)
(* OwnedValue                                                              *)
(***************************************************************************)
Null == [type |-> "Null"]

Integer(i) == [type |-> "Integer", i |-> i]

Float(f) == [type |-> "Float", f |-> f]

LimboText_new(value) == [value |-> value, subtype |-> "Text"]

LimboText_json(value) == [value |-> value, subtype |-> "Json"]

Text(t) == [type |-> "Text", t |-> t]

build_text(text) == Text(LimboText_new(text))

Blob(b) == [type |-> "Blob", b |-> b]

Agg(a) == [type |-> "Agg", a |-> a]

Record(values) == [type |-> "Record", values |-> values]

\* Option<OwnedValue>
None == [some |-> FALSE]

Some(value) == [some |-> TRUE, value |-> value]

\* AggContext
Avg(acc, count) == [kind |-> "Avg", acc |-> acc, count |-> count]

Sum(acc) == [kind |-> "Sum", acc |-> acc]

Count(count) == [kind |-> "Count", count |-> count]

Max(max) == [kind |-> "Max", max |-> max]

Min(min) == [kind |-> "Min", min |-> min]

GroupConcat(s) == [kind |-> "GroupConcat", s |-> s]

NULL == Null

final_value(agg) ==
  CASE agg.kind = "Avg" -> agg.acc
    [] agg.kind = "Sum" -> agg.acc
    [] agg.kind = "Count" -> agg.count
    [] agg.kind = "Max" -> IF agg.max.some THEN agg.max.value ELSE NULL
    [] agg.kind = "Min" -> IF agg.min.some THEN agg.min.value ELSE NULL
    [] agg.kind = "GroupConcat" -> agg.s

(***************************************************************************)
(* Equality (the derived PartialEq, operator ==)                           *)
(***************************************************************************)
LimboText_eq(a, b) == a.value = b.value /\ a.subtype = b.subtype

RECURSIVE OwnedValue_eq(_, _)
Option_eq(a, b) ==
  IF a.some /\ b.some THEN OwnedValue_eq(a.value, b.value) ELSE a.some = b.some

AggContext_eq(a, b) ==
  a.kind = b.kind
    /\ CASE a.kind = "Avg" -> OwnedValue_eq(a.acc, b.acc) /\ OwnedValue_eq(a.count, b.count)
         [] a.kind = "Sum" -> OwnedValue_eq(a.acc, b.acc)
         [] a.kind = "Count" -> OwnedValue_eq(a.count, b.count)
         [] a.kind = "Max" -> Option_eq(a.max, b.max)
         [] a.kind = "Min" -> Option_eq(a.min, b.min)
         [] a.kind = "GroupConcat" -> OwnedValue_eq(a.s, b.s)

OwnedRecord_eq(a, b) ==
  Len(a) = Len(b) /\ \A k \in 1..Len(a) : OwnedValue_eq(a[k], b[k])

OwnedValue_eq(a, b) ==
  a.type = b.type
    /\ CASE a.type = "Null" -> TRUE
         [] a.type = "Integer" -> a.i = b.i
         [] a.type = "Float" -> F64Eq(a.f, b.f)
         [] a.type = "Text" -> LimboText_eq(a.t, b.t)
         [] a.type = "Blob" -> a.b = b.b
         [] a.type = "Agg" -> AggContext_eq(a.a, b.a)
         [] a.type = "Record" -> OwnedRecord_eq(a.values, b.values)

(***************************************************************************)
(* Comparison.  An Option<Ordering> is "Less", "Equal", "Greater" or       *)
(* "None"; "panic" stands for a call that reached todo!.                   *)
(***************************************************************************)
IsNumeric(v) == v.type \in {"Integer", "Float"}

IsTextOrBlob(v) == v.type \in {"Text", "Blob"}

RECURSIVE partial_cmp(_, _)
\* Option<OwnedValue>::partial_cmp (None sorts before Some)
Option_partial_cmp(a, b) ==
  CASE ~a.some /\ ~b.some -> "Equal"
    [] ~a.some /\ b.some -> "Less"
    [] a.some /\ ~b.some -> "Greater"
    [] a.some /\ b.some -> partial_cmp(a.value, b.value)

AggContext_partial_cmp(a, b) ==
  CASE a.kind = "Avg" /\ b.kind = "Avg" -> partial_cmp(a.acc, b.acc)
    [] a.kind = "Sum" /\ b.kind = "Sum" -> partial_cmp(a.acc, b.acc)
    [] a.kind = "Count" /\ b.kind = "Count" -> partial_cmp(a.count, b.count)
    [] a.kind = "Max" /\ b.kind = "Max" -> Option_partial_cmp(a.max, b.max)
    [] a.kind = "Min" /\ b.kind = "Min" -> Option_partial_cmp(a.min, b.min)
    [] a.kind = "GroupConcat" /\ b.kind = "GroupConcat" -> partial_cmp(a.s, b.s)
    [] a.kind # b.kind -> "None"

\* The arms of the match in source order; each guard excludes the arms
\* above it.
partial_cmp(self, other) ==
  LET l == self.type
      r == other.type
  IN CASE l = "Integer" /\ r = "Integer" -> I64Cmp(self.i, other.i)
       [] l = "Integer" /\ r = "Float" -> F64PartialCmp(I64ToF64(self.i), other.f)
       [] l = "Float" /\ r = "Integer" -> F64PartialCmp(self.f, I64ToF64(other.i))
       [] l = "Float" /\ r = "Float" -> F64PartialCmp(self.f, other.f)
       [] IsNumeric(self) /\ IsTextOrBlob(other) -> "Less"
       [] IsTextOrBlob(self) /\ IsNumeric(other) -> "Greater"
       [] l = "Text" /\ r = "Text" -> SeqCmp(self.t.value, other.t.value)
       [] l = "Text" /\ r = "Blob" -> "Less"
       [] l = "Blob" /\ r = "Text" -> "Greater"
       [] l = "Blob" /\ r = "Blob" -> SeqCmp(self.b, other.b)
       [] l = "Null" /\ r = "Null" -> "Equal"
       [] l = "Null" /\ r # "Null" -> "Less"
       [] l # "Null" /\ r = "Null" -> "Greater"
       [] l = "Agg" /\ r = "Agg" -> AggContext_partial_cmp(self.a, other.a)
       [] l = "Agg" /\ r \notin {"Null", "Agg"} -> partial_cmp(final_value(self.a), other)
       [] l \notin {"Null", "Agg"} /\ r = "Agg" -> partial_cmp(self, final_value(other.a))
       [] l = "Record" /\ r \notin {"Null", "Agg"} -> "panic"
       [] l \notin {"Null", "Agg"} /\ r = "Record" -> "panic"

Returned(value) == [status |-> "returned", value |-> value]

Panicked(panic) == [status |-> "panicked", panic |-> panic]

\* What a call of partial_cmp ends with: the Option it returns, or the
\* panic of todo!.
PartialCmpResult(ordering) ==
  IF ordering = "panic" THEN Panicked("todo") ELSE Returned(ordering)

\* Option<Ordering>::unwrap (on what partial_cmp ended with)
Unwrap(ordering) ==
  CASE ordering = "panic" -> Panicked("todo")
    [] ordering = "None" -> Panicked("unwrap")
    [] ordering \notin {"panic", "None"} -> Returned(ordering)

\* Ord::cmp: partial_cmp(other).unwrap()
cmp(self, other) == Unwrap(partial_cmp(self, other))

(***************************************************************************)
(* OwnedRecord and its derived comparison                                  *)
(***************************************************************************)
OwnedRecord_new(values) == [values |-> values]

\* The result on a field pair decides unless it is equal; the fields after
\* it are looked at only then.
OrElse(ordering, equal, rest) == IF ordering = equal THEN rest ELSE ordering

\* usize::cmp
UsizeCmp(m, n) == IF m < n THEN "Less" ELSE IF m > n THEN "Greater" ELSE "Equal"

\* Vec<OwnedValue>::partial_cmp from position k on: the first result of
\* partial_cmp on the fields that is not Some(Equal), else the lengths.
RECURSIVE Vec_partial_cmp(_, _, _)
Vec_partial_cmp(left, right, k) ==
  IF k > Len(left) \/ k > Len(right) THEN UsizeCmp(Len(left), Len(right))
  ELSE OrElse(partial_cmp(left[k], right[k]), "Equal", Vec_partial_cmp(left, right, k + 1))

\* Vec<OwnedValue>::cmp from position k on: the first result of cmp on the
\* fields that is not Equal, else the lengths.
RECURSIVE Vec_cmp(_, _, _)
Vec_cmp(left, right, k) ==
  IF k > Len(left) \/ k > Len(right) THEN Returned(UsizeCmp(Len(left), Len(right)))
  ELSE OrElse(cmp(left[k], right[k]), Returned("Equal"), Vec_cmp(left, right, k + 1))

\* #[derive(PartialOrd)] of OwnedRecord
OwnedRecord_partial_cmp(self, other) == Vec_partial_cmp(self.values, other.values, 1)

\* #[derive(Ord)] of OwnedRecord
OwnedRecord_cmp(self, other) == Vec_cmp(self.values, other.values, 1)

(***************************************************************************)
(* Arithmetic.  overflow_checks tells whether the build panics on integer  *)
(* overflow (debug) or wraps (release).                                    *)
(***************************************************************************)
F64_ZERO == Zeros(8)

\* Mutant: SQL's NULL propagation in place of the two Null arms.
add_NullPropagates(lhs, rhs, overflow_checks) ==
  LET l == lhs.type
      r == rhs.type
  IN CASE l = "Integer" /\ r = "Integer" ->
            LET sum == I64Add(lhs.i, rhs.i)
            IN IF sum.overflow /\ overflow_checks THEN Panicked("overflow")
               ELSE Returned(Integer(sum.value))
       [] l = "Integer" /\ r = "Float" -> Returned(Float(F64Add(I64ToF64(lhs.i), rhs.f)))
       [] l = "Float" /\ r = "Integer" -> Returned(Float(F64Add(lhs.f, I64ToF64(rhs.i))))
       [] l = "Float" /\ r = "Float" -> Returned(Float(F64Add(lhs.f, rhs.f)))
       [] l = "Text" /\ r = "Text" -> Returned(build_text(lhs.t.value \o rhs.t.value))
       [] l = "Text" /\ r = "Integer" ->
            Returned(build_text(lhs.t.value \o I64ToString(rhs.i)))
       [] l = "Integer" /\ r = "Text" ->
            Returned(build_text(I64ToString(lhs.i) \o rhs.t.value))
       [] l = "Text" /\ r = "Float" ->
            Returned(build_text(lhs.t.value \o F64ToString(rhs.f)))
       [] l = "Float" /\ r = "Text" ->
            Returned(build_text(F64ToString(lhs.f) \o rhs.t.value))
       [] OTHER -> IF r = "Null" THEN Returned(Null)
                   ELSE IF l = "Null" THEN Returned(Null)
                   ELSE Returned(Float(F64_ZERO))

\* The arms of the match in source order.
add(lhs, rhs, overflow_checks) ==
  LET l == lhs.type
      r == rhs.type
  IN CASE l = "Integer" /\ r = "Integer" ->
            LET sum == I64Add(lhs.i, rhs.i)
            IN IF sum.overflow /\ overflow_checks THEN Panicked("overflow")
               ELSE Returned(Integer(sum.value))
       [] l = "Integer" /\ r = "Float" -> Returned(Float(F64Add(I64ToF64(lhs.i), rhs.f)))
       [] l = "Float" /\ r = "Integer" -> Returned(Float(F64Add(lhs.f, I64ToF64(rhs.i))))
       [] l = "Float" /\ r = "Float" -> Returned(Float(F64Add(lhs.f, rhs.f)))
       [] l = "Text" /\ r = "Text" -> Returned(build_text(lhs.t.value \o rhs.t.value))
       [] l = "Text" /\ r = "Integer" ->
            Returned(build_text(lhs.t.value \o I64ToString(rhs.i)))
       [] l = "Integer" /\ r = "Text" ->
            Returned(build_text(I64ToString(lhs.i) \o rhs.t.value))
       [] l = "Text" /\ r = "Float" ->
            Returned(build_text(lhs.t.value \o F64ToString(rhs.f)))
       [] l = "Float" /\ r = "Text" ->
            Returned(build_text(F64ToString(lhs.f) \o rhs.t.value))
       [] OTHER -> IF r = "Null" THEN Returned(lhs)
                   ELSE IF l = "Null" THEN Returned(rhs)
                   ELSE Returned(Float(F64_ZERO))

\* *self = self.clone() + rhs: the value returned is the new *self
add_assign(self, rhs, overflow_checks) == add(self, rhs, overflow_checks)

div(lhs, rhs) ==
  LET l == lhs.type
      r == rhs.type
  IN CASE l = "Integer" /\ r = "Integer" ->
            LET quotient == I64Div(lhs.i, rhs.i)
            IN IF quotient.panic THEN Panicked("divide") ELSE Returned(Integer(quotient.value))
       [] l = "Integer" /\ r = "Float" -> Returned(Float(F64Div(I64ToF64(lhs.i), rhs.f)))
       [] l = "Float" /\ r = "Integer" -> Returned(Float(F64Div(lhs.f, I64ToF64(rhs.i))))
       [] l = "Float" /\ r = "Float" -> Returned(Float(F64Div(lhs.f, rhs.f)))
       [] OTHER -> Returned(Float(F64_ZERO))

\* *self = self.clone() / rhs
div_assign(self, rhs) == div(self, rhs)

(***************************************************************************)
(* SerialType                                                              *)
(***************************************************************************)
I8_LOW == I64(-128)

\* Mutant: the upper bound of the 8-bit class taken one too high.
I8_HIGH_Off == I64(128)

I8_HIGH == I64(127)

I16_LOW == I64(-32768)

I16_HIGH == I64(32767)

\* Mutant: the lower bound of the 24-bit class taken one too high.
I24_LOW_Off == I64(-8388607)

I24_LOW == I64(-8388608)

I24_HIGH == I64(8388607)

I32_LOW == <<255, 255, 255, 255, 128, 0, 0, 0>>

I32_HIGH == I64(2147483647)

I48_LOW == <<255, 255, 128, 0, 0, 0, 0, 0>>

I48_HIGH == <<0, 0, 127, 255, 255, 255, 255, 255>>

SerialType(kind) == [kind |-> kind]

SerialTypeText(content_size) == [kind |-> "Text", content_size |-> content_size]

SerialTypeBlob(content_size) == [kind |-> "Blob", content_size |-> content_size]

PanicUnreachable == [kind |-> "panic"]

\* impl From<&OwnedValue> for SerialType
SerialType_from(value) ==
  CASE value.type = "Null" -> SerialType("Null")
    [] value.type = "Integer" ->
         LET i == value.i IN
         IF I64Ge(i, I8_LOW) /\ I64Le(i, I8_HIGH) THEN SerialType("I8")
         ELSE IF I64Ge(i, I16_LOW) /\ I64Le(i, I16_HIGH) THEN SerialType("I16")
         ELSE IF I64Ge(i, I24_LOW) /\ I64Le(i, I24_HIGH) THEN SerialType("I24")
         ELSE IF I64Ge(i, I32_LOW) /\ I64Le(i, I32_HIGH) THEN SerialType("I32")
         ELSE IF I64Ge(i, I48_LOW) /\ I64Le(i, I48_HIGH) THEN SerialType("I48")
         ELSE SerialType("I64")
    [] value.type = "Float" -> SerialType("F64")
    [] value.type = "Text" -> SerialTypeText(Len(value.t.value))
    [] value.type = "Blob" -> SerialTypeBlob(Len(value.b))
    [] value.type = "Agg" -> PanicUnreachable
    [] value.type = "Record" -> PanicUnreachable

\* Mutant: the text code computed with the blob's offset.
u64_from_TextAsBlob(serial_type) ==
  CASE serial_type.kind = "Null" -> 0
    [] serial_type.kind = "I8" -> 1
    [] serial_type.kind = "I16" -> 2
    [] serial_type.kind = "I24" -> 3
    [] serial_type.kind = "I32" -> 4
    [] serial_type.kind = "I48" -> 5
    [] serial_type.kind = "I64" -> 6
    [] serial_type.kind = "F64" -> 7
    [] serial_type.kind = "Text" -> serial_type.content_size * 2 + 12
    [] serial_type.kind = "Blob" -> serial_type.content_size * 2 + 12

\* impl From<SerialType> for u64
u64_from(serial_type) ==
  CASE serial_type.kind = "Null" -> 0
    [] serial_type.kind = "I8" -> 1
    [] serial_type.kind = "I16" -> 2
    [] serial_type.kind = "I24" -> 3
    [] serial_type.kind = "I32" -> 4
    [] serial_type.kind = "I48" -> 5
    [] serial_type.kind = "I64" -> 6
    [] serial_type.kind = "F64" -> 7
    [] serial_type.kind = "Text" -> serial_type.content_size * 2 + 13
    [] serial_type.kind = "Blob" -> serial_type.content_size * 2 + 12

(***************************************************************************)
(* Record codec                                                            *)
(***************************************************************************)
RECURSIVE Base128(_)
Base128(v) == IF v < 128 THEN <<v>> ELSE Base128(v \div 128) \o <<v % 128>>

\* storage::sqlite3_ondisk::write_varint, for values below 2^31: the bytes it
\* writes (their number is its return value).  Base-128 digits, most
\* significant first, the top bit set on every byte but the last.
write_varint(value) ==
  LET d == Base128(value)
  IN [k \in 1..Len(d) |-> IF k < Len(d) THEN d[k] + 128 ELSE d[k]]

\* One round of the first loop of serialize: grow the buffer by 9 bytes,
\* write the varint into them, cut the unused bytes off.
AppendSerialType(b, value) ==
  LET serial_type == SerialType_from(value)
      grown == b \o Zeros(9)
      len == Len(grown)
      bytes == write_varint(u64_from(serial_type))
      n == Len(bytes)
      written == [k \in 1..len |->
                    IF k > len - 9 /\ k <= len - 9 + n THEN bytes[k - (len - 9)]
                    ELSE grown[k]]
  IN SubSeq(written, 1, len - 9 + n)

\* Mutant: the 24-bit content cut at the wrong end of the 32-bit bytes.
ContentBytes_I24LowCut(value) ==
  CASE value.type = "Null" -> <<>>
    [] value.type = "Integer" ->
         LET serial_type == SerialType_from(value)
             i == value.i
         IN (CASE serial_type.kind = "I8" -> TruncateBE(i, 1)
               [] serial_type.kind = "I16" -> TruncateBE(i, 2)
               [] serial_type.kind = "I24" -> SubSeq(TruncateBE(i, 4), 1, 3)
               [] serial_type.kind = "I32" -> TruncateBE(i, 4)
               [] serial_type.kind = "I48" -> SubSeq(i, 3, 8)
               [] serial_type.kind = "I64" -> i)
    [] value.type = "Float" -> value.f
    [] value.type = "Text" -> value.t.value
    [] value.type = "Blob" -> value.b

\* The content bytes of one value (second loop of serialize).
ContentBytes(value) ==
  CASE value.type = "Null" -> <<>>
    [] value.type = "Integer" ->
         LET serial_type == SerialType_from(value)
             i == value.i
         IN (CASE serial_type.kind = "I8" -> TruncateBE(i, 1)
               [] serial_type.kind = "I16" -> TruncateBE(i, 2)
               [] serial_type.kind = "I24" -> Tail(TruncateBE(i, 4))
               [] serial_type.kind = "I32" -> TruncateBE(i, 4)
               [] serial_type.kind = "I48" -> SubSeq(i, 3, 8)
               [] serial_type.kind = "I64" -> i)
    [] value.type = "Float" -> value.f
    [] value.type = "Text" -> value.t.value
    [] value.type = "Blob" -> value.b

Serializable(value) == value.type \notin {"Agg", "Record"}

\* The first loop of serialize over values[lo..hi], in order.  The range
\* is halved rather than walked, and Len(left) >= 0 (which always holds)
\* has the left half evaluated first: the evaluation stays shallow for the
\* long records, and the rounds are applied left to right all the same.
RECURSIVE WriteSerialTypes(_, _, _, _)
WriteSerialTypes(b, values, lo, hi) ==
  IF lo > hi THEN b
  ELSE IF lo = hi THEN AppendSerialType(b, values[lo])
  ELSE LET mid == (lo + hi) \div 2
           left == WriteSerialTypes(b, values, lo, mid)
       IN IF Len(left) >= 0 THEN WriteSerialTypes(left, values, mid + 1, hi) ELSE b

\* The second loop of serialize over values[lo..hi], in order.
RECURSIVE WriteContent(_, _, _, _)
WriteContent(b, values, lo, hi) ==
  IF lo > hi THEN b
  ELSE IF lo = hi THEN b \o ContentBytes(values[lo])
  ELSE LET mid == (lo + hi) \div 2
           left == WriteContent(b, values, lo, mid)
       IN IF Len(left) >= 0 THEN WriteContent(left, values, mid + 1, hi) ELSE b

\* Mutant: the length field not counting its own byte.
HeaderSize_NoSelf(header_size) ==
  IF header_size <= 126
    THEN IF header_size <= 126 THEN [ok |-> TRUE, size |-> header_size]
         ELSE [ok |-> FALSE, panic |-> "assert"]
    ELSE [ok |-> FALSE, panic |-> "todo"]

\* Mutant: the assertion on the final header size left out.
HeaderSize_NoAssert(header_size) ==
  IF header_size <= 126
    THEN [ok |-> TRUE, size |-> header_size + 1]
    ELSE [ok |-> FALSE, panic |-> "todo"]

\* The header-size step of serialize: the size to write, or a panic
\* (todo! for a long header, then the assertion).
HeaderSize(header_size) ==
  IF header_size <= 126
    THEN IF header_size + 1 <= 126 THEN [ok |-> TRUE, size |-> header_size + 1]
         ELSE [ok |-> FALSE, panic |-> "assert"]
    ELSE [ok |-> FALSE, panic |-> "todo"]

\* OwnedRecord::serialize on the buffer b: whether it returns, and the
\* buffer as it then is (on a panic: as the panic leaves it).
\* Mutant: the header length spliced in at the start of the buffer.
serialize_SpliceAtStart(values, b) ==
  LET initial_i == Len(b)
      bad == {k \in 1..Len(values) : ~Serializable(values[k])}
  IN IF bad # {}
       THEN LET first == CHOOSE k \in bad : \A j \in bad : k <= j
            IN [status |-> "panicked", panic |-> "unreachable",
                buf |-> WriteSerialTypes(b, values, 1, first - 1)]
       ELSE
         LET b1 == WriteSerialTypes(b, values, 1, Len(values))
             header_size == Len(b1) - initial_i
             b2 == WriteContent(b1, values, 1, Len(values))
             hs == HeaderSize(header_size)
         IN IF ~hs.ok
              THEN [status |-> "panicked", panic |-> hs.panic, buf |-> b2]
              ELSE LET header_bytes_buf == write_varint(hs.size)
                   IN [status |-> "returned",
                       buf |-> header_bytes_buf \o b2]

serialize(values, b) ==
  LET initial_i == Len(b)
      bad == {k \in 1..Len(values) : ~Serializable(values[k])}
  IN IF bad # {}
       THEN LET first == CHOOSE k \in bad : \A j \in bad : k <= j
            IN [status |-> "panicked", panic |-> "unreachable",
                buf |-> WriteSerialTypes(b, values, 1, first - 1)]
       ELSE
         LET b1 == WriteSerialTypes(b, values, 1, Len(values))
             header_size == Len(b1) - initial_i
             b2 == WriteContent(b1, values, 1, Len(values))
             hs == HeaderSize(header_size)
         IN IF ~hs.ok
              THEN [status |-> "panicked", panic |-> hs.panic, buf |-> b2]
              ELSE LET header_bytes_buf == write_varint(hs.size)
                   IN [status |-> "returned",
                       buf |-> SubSeq(b2, 1, initial_i) \o header_bytes_buf
                                 \o SubSeq(b2, initial_i + 1, Len(b2))]

(***************************************************************************)
(* Inputs of the codec                                                     *)
(***************************************************************************)
\* Longest record of the multi-field family.
MaxFields == 2

\* Longest all-Null record (the header limit of 126 lies below it).
MaxNulls == 128

\* Largest content size of the serial types whose code is computed.
MaxContentSize == 70

Rep(x, n) == [k \in 1..n |-> x]

\* The i64 with only bit k set, and the one with the k low bits set.
I64Bit(k) == BitsToBytes([j \in 1..64 |-> IF j = 64 - k THEN 1 ELSE 0])

I64LowBits(k) == BitsToBytes([j \in 1..64 |-> IF j > 64 - k THEN 1 ELSE 0])

\* 2^k, 2^k - 1, -2^k - 1 and -2^k for every bit position: every class
\* boundary of the serial types, its neighbours, and both ends of i64.
I64Family ==
  UNION {{I64Bit(k), I64LowBits(k), NotBytes(I64Bit(k)), NotBytes(I64LowBits(k))} :
           k \in 0..63}

I64_MIN == I64Bit(63)

I64_MAX == I64LowBits(63)

TestInts ==
  {I64(42), I64(1000), I64(1000000), I64(1000000000),
   <<0, 0, 0, 232, 212, 165, 16, 0>>, I64(5), I64(-42), I64(-1000000)}

CodecInts == I64Family \cup TestInts

\* f64 patterns: 0.0, -0.0, 1.0, 5.0, 0.5, 3.14, 2^53, inf, -inf, NaN.
F_ZERO == Zeros(8)

F_NEG_ZERO == <<128, 0, 0, 0, 0, 0, 0, 0>>

F_ONE == <<63, 240, 0, 0, 0, 0, 0, 0>>

F_FIVE == <<64, 20, 0, 0, 0, 0, 0, 0>>

F_HALF == <<63, 224, 0, 0, 0, 0, 0, 0>>

F_PI == <<64, 9, 30, 184, 81, 235, 133, 31>>

F_2P53 == <<67, 64, 0, 0, 0, 0, 0, 0>>

F_INF == <<127, 240, 0, 0, 0, 0, 0, 0>>

F_NEG_INF == <<255, 240, 0, 0, 0, 0, 0, 0>>

F_NAN == <<127, 248, 0, 0, 0, 0, 0, 0>>

CodecFloats == {F_ZERO, F_NEG_ZERO, F_ONE, F_FIVE, F_PI, F_INF, F_NEG_INF, F_NAN}

\* "hello", "test", "a", and payloads around the length (57/58) where the
\* serial-type code stops fitting one varint byte.
CodecPayloads ==
  {<<>>, <<97>>, <<104, 101, 108, 108, 111>>, <<116, 101, 115, 116>>,
   <<1, 2, 3, 4, 5>>, <<0>>, <<255, 128>>, Rep(120, 57), Rep(120, 58), Rep(7, 64)}

SumOfNull == Sum(Null)

CodecValues ==
  {Null} \cup {Integer(i) : i \in CodecInts} \cup {Float(f) : f \in CodecFloats}
    \cup {build_text(t) : t \in CodecPayloads}
    \cup {Text(LimboText_json(<<123, 125>>))}
    \cup {Blob(b) : b \in CodecPayloads}

\* Values of the multi-field records.
FieldValues ==
  {Null, Integer(I64(42)), Integer(I64(-129)), Integer(I64_MAX), Float(F_PI),
   build_text(<<116, 101, 115, 116>>), Blob(<<1, 2, 3, 4, 5>>),
   build_text(Rep(120, 58))}

SeqsUpTo(S, n) == UNION {[1..m -> S] : m \in 0..n}

\* Records whose header is about as long as the encoder supports: Nulls
\* (one byte of header each) after texts of 58 bytes (two bytes each).
LongRecords ==
  {Rep(Null, n) : n \in 120..MaxNulls}
    \cup {Rep(build_text(Rep(120, 58)), k) \o Rep(Null, j) : k \in 61..64, j \in 0..3}

\* Records holding a value the codec does not take.
BadRecords ==
  {<<Agg(SumOfNull)>>, <<Null, Record(<<Null>>)>>,
   <<Integer(I64(1)), build_text(<<97>>), Agg(SumOfNull), Null>>}

\* The records of test_serialize_integers and test_serialize_mixed_types.
TestRecords ==
  {<<Integer(I64(42)), Integer(I64(1000)), Integer(I64(1000000)),
     Integer(I64(1000000000)), Integer(<<0, 0, 0, 232, 212, 165, 16, 0>>),
     Integer(I64_MAX)>>,
   <<Null, Integer(I64(42)), Float(F_PI), build_text(<<116, 101, 115, 116>>)>>}

CodecRecords ==
  {<<v>> : v \in CodecValues} \cup SeqsUpTo(FieldValues, MaxFields)
    \cup LongRecords \cup BadRecords \cup TestRecords

InitialBufs == {<<>>, <<170, 187>>}

SerialTypes ==
  {SerialType(k) : k \in {"Null", "I8", "I16", "I24", "I32", "I48", "I64", "F64"}}
    \cup {SerialTypeText(n) : n \in 0..MaxContentSize}
    \cup {SerialTypeBlob(n) : n \in 0..MaxContentSize}

CodecCalls ==
  {[op |-> "serialize", values |-> r, buf |-> b] :
      r \in CodecRecords, b \in InitialBufs}
    \cup {[op |-> "SerialType_from", value |-> v] :
            v \in CodecValues \cup {Agg(SumOfNull), Record(<<Null>>)}}
    \cup {[op |-> "u64_from", serial_type |-> st] : st \in SerialTypes}

\* The records a second serialize into the same buffer follows, and the
\* records it writes.
FirstRecords == SeqsUpTo(FieldValues, MaxFields) \cup TestRecords

NextRecords == TestRecords \cup {<<>>, <<Null>>, <<Integer(I64(-129)), Blob(<<1, 2, 3, 4, 5>>)>>}

NoRet == [status |-> "none"]

(***************************************************************************)
(* Codec operations                                                        *)
(***************************************************************************)
InitCodec ==
  /\ call \in CodecCalls
  /\ pc = "ready"
  /\ ret = NoRet
  /\ buf = IF call.op = "serialize" THEN call.buf ELSE <<>>

\* record.serialize(&mut buf)
Serialize ==
  /\ pc = "ready"
  /\ call.op = "serialize"
  /\ LET r == serialize(call.values, buf)
     IN /\ pc' = r.status
        /\ buf' = r.buf
        /\ ret' = [status |-> r.status]
  /\ UNCHANGED call

\* SerialType::from(&value)
Classify ==
  /\ pc = "ready"
  /\ call.op = "SerialType_from"
  /\ LET st == SerialType_from(call.value)
     IN IF st = PanicUnreachable
          THEN pc' = "panicked" /\ ret' = [status |-> "panicked"]
          ELSE pc' = "returned" /\ ret' = [status |-> "returned", value |-> st]
  /\ UNCHANGED <<call, buf>>

\* u64::from(serial_type)
Code ==
  /\ pc = "ready"
  /\ call.op = "u64_from"
  /\ pc' = "returned"
  /\ ret' = [status |-> "returned", value |-> u64_from(call.serial_type)]
  /\ UNCHANGED <<call, buf>>

\* The caller serializes another record into the buffer the first call
\* left (call.first keeps the first call).
SerializeNext ==
  /\ pc = "returned"
  /\ call.op = "serialize"
  /\ "first" \notin DOMAIN call
  /\ call.values \in FirstRecords
  /\ \E next \in NextRecords :
       call' = [op |-> "serialize", values |-> next, buf |-> buf, first |-> call]
  /\ pc' = "ready"
  /\ ret' = NoRet
  /\ UNCHANGED buf

NextCodec == Serialize \/ Classify \/ Code \/ SerializeNext

SpecCodec == InitCodec /\ [][NextCodec]_vars

(***************************************************************************)
(* Inputs of the comparator                                                *)
(***************************************************************************)
\* Longest Text and Blob payload compared.
MaxPayloadLen == 2

I64_2P53 == I64Bit(53)

I64_2P53_PLUS_1 == <<0, 32, 0, 0, 0, 0, 0, 1>>

CmpInts == {I64(0), I64(1), I64(5), I64(-1), I64_2P53, I64_2P53_PLUS_1, I64_MIN, I64_MAX}

CmpFloats ==
  {F_ZERO, F_NEG_ZERO, F_ONE, F_FIVE, F_HALF, F_2P53, F_INF, F_NEG_INF, F_NAN}

ScalarCmpValues ==
  {Null} \cup {Integer(i) : i \in CmpInts} \cup {Float(f) : f \in CmpFloats}
    \cup {build_text(t) : t \in SeqsUpTo({66, 97}, MaxPayloadLen)}
    \cup {Blob(b) : b \in SeqsUpTo({0, 255}, MaxPayloadLen)}

AggValues ==
  {Agg(Sum(Integer(I64(5)))), Agg(Sum(Float(F_NAN))), Agg(Count(Integer(I64(1)))),
   Agg(Avg(Float(F_FIVE), Integer(I64(1)))), Agg(Max(None)),
   Agg(Max(Some(Integer(I64(5))))), Agg(Min(Some(Float(F_FIVE)))),
   Agg(GroupConcat(build_text(<<97>>)))}

RecordValues ==
  {Record(<<>>), Record(<<Integer(I64(1))>>), Record(<<Float(F_NAN)>>)}

CmpValues ==
  ScalarCmpValues \cup {Text(LimboText_json(<<97>>))} \cup AggValues \cup RecordValues

\* Fields of the records compared as OwnedRecord.
RecordFieldValues ==
  {Null, Integer(I64(1)), Integer(I64(5)), Float(F_FIVE), Float(F_NAN), build_text(<<97>>)}

OwnedRecords == {OwnedRecord_new(values) : values \in SeqsUpTo(RecordFieldValues, MaxFields)}

CmpCalls ==
  [op : {"partial_cmp", "cmp", "eq"}, self : CmpValues, other : CmpValues]
    \cup [op : {"OwnedRecord_partial_cmp", "OwnedRecord_cmp"},
          self : OwnedRecords, other : OwnedRecords]

(***************************************************************************)
(* Comparator operations                                                   *)
(***************************************************************************)
InitCmp ==
  /\ call \in CmpCalls
  /\ pc = "ready"
  /\ ret = NoRet
  /\ buf = <<>>

PartialCmp ==
  /\ pc = "ready"
  /\ call.op = "partial_cmp"
  /\ ret' = PartialCmpResult(partial_cmp(call.self, call.other))
  /\ pc' = ret'.status
  /\ UNCHANGED <<call, buf>>

Cmp ==
  /\ pc = "ready"
  /\ call.op = "cmp"
  /\ ret' = cmp(call.self, call.other)
  /\ pc' = ret'.status
  /\ UNCHANGED <<call, buf>>

Eq ==
  /\ pc = "ready"
  /\ call.op = "eq"
  /\ ret' = Returned(OwnedValue_eq(call.self, call.other))
  /\ pc' = "returned"
  /\ UNCHANGED <<call, buf>>

OwnedRecordPartialCmp ==
  /\ pc = "ready"
  /\ call.op = "OwnedRecord_partial_cmp"
  /\ ret' = PartialCmpResult(OwnedRecord_partial_cmp(call.self, call.other))
  /\ pc' = ret'.status
  /\ UNCHANGED <<call, buf>>

OwnedRecordCmp ==
  /\ pc = "ready"
  /\ call.op = "OwnedRecord_cmp"
  /\ ret' = OwnedRecord_cmp(call.self, call.other)
  /\ pc' = ret'.status
  /\ UNCHANGED <<call, buf>>

NextCmp == PartialCmp \/ Cmp \/ Eq \/ OwnedRecordPartialCmp \/ OwnedRecordCmp

SpecCmp == InitCmp /\ [][NextCmp]_vars

(***************************************************************************)
(* Inputs of the arithmetic                                                *)
(***************************************************************************)
ArithInts == {I64(0), I64(1), I64(5), I64(-1), I64_2P53_PLUS_1, I64_MIN, I64_MAX}

ArithFloats == CmpFloats

ArithTexts ==
  {build_text(<<>>), build_text(<<97>>), build_text(<<98>>), Text(LimboText_json(<<97>>))}

ArithValues ==
  {Null} \cup {Integer(i) : i \in ArithInts} \cup {Float(f) : f \in ArithFloats}
    \cup ArithTexts \cup {Blob(<<>>), Blob(<<0>>)}
    \cup {Agg(Sum(Integer(I64(5)))), Agg(Sum(Float(F_NAN))), Agg(Max(None))}
    \cup RecordValues

ArithCalls ==
  [op : {"add", "add_assign", "div", "div_assign"}, lhs : ArithValues, rhs : ArithValues]

(***************************************************************************)
(* Arithmetic operations                                                   *)
(***************************************************************************)
InitArith ==
  /\ call \in ArithCalls
  /\ pc = "ready"
  /\ ret = NoRet
  /\ buf = <<>>

Add ==
  /\ pc = "ready"
  /\ call.op = "add"
  /\ \E overflow_checks \in BOOLEAN : ret' = add(call.lhs, call.rhs, overflow_checks)
  /\ pc' = ret'.status
  /\ UNCHANGED <<call, buf>>

AddAssign ==
  /\ pc = "ready"
  /\ call.op = "add_assign"
  /\ \E overflow_checks \in BOOLEAN : ret' = add_assign(call.lhs, call.rhs, overflow_checks)
  /\ pc' = ret'.status
  /\ UNCHANGED <<call, buf>>

Div ==
  /\ pc = "ready"
  /\ call.op = "div"
  /\ ret' = div(call.lhs, call.rhs)
  /\ pc' = ret'.status
  /\ UNCHANGED <<call, buf>>

DivAssign ==
  /\ pc = "ready"
  /\ call.op = "div_assign"
  /\ ret' = div_assign(call.lhs, call.rhs)
  /\ pc' = ret'.status
  /\ UNCHANGED <<call, buf>>

NextArith == Add \/ AddAssign \/ Div \/ DivAssign

SpecArith == InitArith /\ [][NextArith]_vars

(***************************************************************************)
(* Reference definitions of the record layout                              *)
(***************************************************************************)
\* Concatenation of ss[lo..hi] (halved and forced like the loops above).
RECURSIVE Flatten(_, _, _)
Flatten(ss, lo, hi) ==
  IF lo > hi THEN <<>>
  ELSE IF lo = hi THEN ss[lo]
  ELSE LET mid == (lo + hi) \div 2
           left == Flatten(ss, lo, mid)
       IN IF Len(left) >= 0 THEN left \o Flatten(ss, mid + 1, hi) ELSE <<>>

RECURSIVE SumSeq(_, _, _)
SumSeq(ns, lo, hi) ==
  IF lo > hi THEN 0
  ELSE IF lo = hi THEN ns[lo]
  ELSE LET mid == (lo + hi) \div 2
           left == SumSeq(ns, lo, mid)
       IN IF left >= 0 THEN left + SumSeq(ns, mid + 1, hi) ELSE 0

\* Big-endian two's complement of fewer than 8 bytes, sign-extended to i64.
SignExtend(bs) ==
  IF bs = <<>> THEN Zeros(8)
  ELSE Rep(IF bs[1] >= 128 THEN 255 ELSE 0, 8 - Len(bs)) \o bs

Widths == {1, 2, 3, 4, 6, 8}

\* An i64 lies in the two's-complement range of w bytes exactly if its low
\* w bytes, sign-extended, give it back.
FitsWidth(i, w) == SignExtend(TruncateBE(i, w)) = i

NarrowestWidth(i) ==
  CHOOSE w \in Widths : FitsWidth(i, w) /\ \A u \in Widths : FitsWidth(i, u) => w <= u

KindOfWidth(w) ==
  CASE w = 1 -> "I8" [] w = 2 -> "I16" [] w = 3 -> "I24"
    [] w = 4 -> "I32" [] w = 6 -> "I48" [] w = 8 -> "I64"

CodeOfWidth(w) ==
  CASE w = 1 -> 1 [] w = 2 -> 2 [] w = 3 -> 3 [] w = 4 -> 4 [] w = 6 -> 5 [] w = 8 -> 6

WidthOfCode(c) ==
  CASE c = 1 -> 1 [] c = 2 -> 2 [] c = 3 -> 3 [] c = 4 -> 4 [] c = 5 -> 6 [] c = 6 -> 8

\* The serial-type code the format gives a value.
RefCode(v) ==
  CASE v.type = "Null" -> 0
    [] v.type = "Integer" -> CodeOfWidth(NarrowestWidth(v.i))
    [] v.type = "Float" -> 7
    [] v.type = "Text" -> 2 * Len(v.t.value) + 13
    [] v.type = "Blob" -> 2 * Len(v.b) + 12

\* The content the format gives a value.
RefContent(v) ==
  CASE v.type = "Null" -> <<>>
    [] v.type = "Integer" -> TruncateBE(v.i, NarrowestWidth(v.i))
    [] v.type = "Float" -> v.f
    [] v.type = "Text" -> v.t.value
    [] v.type = "Blob" -> v.b

RefContentSize(v) ==
  CASE v.type = "Null" -> 0
    [] v.type = "Integer" -> NarrowestWidth(v.i)
    [] v.type = "Float" -> 8
    [] v.type = "Text" -> Len(v.t.value)
    [] v.type = "Blob" -> Len(v.b)

RefTags(vs) == Flatten([k \in 1..Len(vs) |-> write_varint(RefCode(vs[k]))], 1, Len(vs))

RefContents(vs) == Flatten([k \in 1..Len(vs) |-> RefContent(vs[k])], 1, Len(vs))

AllScalar(vs) == \A k \in 1..Len(vs) : Serializable(vs[k])

\* What the call in progress appended to the buffer.
Appended == SubSeq(buf, Len(call.buf) + 1, Len(buf))

SerializeReturned == call.op = "serialize" /\ pc = "returned"

(***************************************************************************)
(* Claims about the codec (checked under SpecCodec)                        *)
(***************************************************************************)
\* C1: when serialize returns, the bytes it appended are exactly the
\* header-length byte, then the serial-type varint of every value in order,
\* then the content of every value in order (nothing for Null, the 1, 2, 3,
\* 4, 6 or 8 low big-endian bytes of an Integer by its narrowest width, the 8
\* bytes of a Float, the raw payload of a Text or Blob), and nothing else: the
\* appended length is the header length plus the sum of the content sizes.
C1_SerializedLayout ==
  SerializeReturned =>
    LET vs == call.values
        tags == RefTags(vs)
    IN /\ Appended = <<1 + Len(tags)>> \o tags \o RefContents(vs)
       /\ Len(Appended) =
            (1 + Len(tags)) + SumSeq([k \in 1..Len(vs) |-> RefContentSize(vs[k])], 1, Len(vs))

\* C1 witness: serialize([Null]) on an empty buffer returned [0x02, 0x00].
C1_Witness ==
  /\ SerializeReturned
  /\ call.values = <<Null>>
  /\ call.buf = <<>>
  /\ buf = <<2, 0>>

\* C2: when serialize returns, the header-length field equals 1 plus the
\* number of bytes of all serial-type varints; with N values whose codes
\* all fit one varint byte it is N + 1.
C2_HeaderLength ==
  SerializeReturned =>
    LET vs == call.values
        field == Appended[1]
    IN /\ field = 1 + SumSeq([k \in 1..Len(vs) |-> Len(write_varint(RefCode(vs[k])))], 1, Len(vs))
       /\ (\A k \in 1..Len(vs) : RefCode(vs[k]) < 128) => field = Len(vs) + 1

\* C2 witness: the six integers of test_serialize_integers, header length 7.
C2_Witness ==
  /\ SerializeReturned
  /\ Len(call.values) = 6
  /\ \A k \in 1..6 : call.values[k].type = "Integer"
  /\ Appended[1] = 7

\* The boundary values of the integer classes and their neighbours.
BoundaryTable ==
  {<<I64(-128), "I8">>, <<I64(127), "I8">>, <<I64(-129), "I16">>, <<I64(128), "I16">>,
   <<I64(-32768), "I16">>, <<I64(32767), "I16">>, <<I64(-32769), "I24">>,
   <<I64(32768), "I24">>, <<I64(-8388608), "I24">>, <<I64(8388607), "I24">>,
   <<I64(-8388609), "I32">>, <<I64(8388608), "I32">>,
   <<NotBytes(I64LowBits(31)), "I32">>, <<I64LowBits(31), "I32">>,
   <<NotBytes(I64Bit(31)), "I48">>, <<I64Bit(31), "I48">>,
   <<NotBytes(I64LowBits(47)), "I48">>, <<I64LowBits(47), "I48">>,
   <<NotBytes(I64Bit(47)), "I64">>, <<I64Bit(47), "I64">>,
   <<I64_MIN, "I64">>, <<I64_MAX, "I64">>, <<I64(0), "I8">>, <<I64(-1), "I8">>}

ClassifiedInteger ==
  call.op = "SerialType_from" /\ pc = "returned" /\ call.value.type = "Integer"

\* C3: SerialType::from(Integer(i)) is the narrowest of the widths 8, 16,
\* 24, 32, 48 and 64 bits whose two's-complement range holds i; every class
\* boundary and its neighbour outside the class fall where expected.
C3_NarrowestClass ==
  ClassifiedInteger =>
    /\ ret.value.kind = KindOfWidth(NarrowestWidth(call.value.i))
    /\ \A row \in BoundaryTable : call.value.i = row[1] => ret.value.kind = row[2]

\* C3 witness: -2^47 - 1, just below the 48-bit range, was classified I64.
C3_Witness ==
  /\ ClassifiedInteger
  /\ call.value.i = <<255, 255, 127, 255, 255, 255, 255, 255>>
  /\ ret.value.kind = "I64"

\* The header length of the record being serialized, computed from the
\* format: one byte for the field and the bytes of every serial-type varint.
TrueHeaderLength == 1 + Len(RefTags(call.values))

\* C6: for a record of Null, Integer, Float, Text and Blob values serialize
\* returns exactly if the header length (its own byte included) is at most
\* 126, and then the field it wrote is that length; otherwise it aborts.
C6_HeaderLimit ==
  (call.op = "serialize" /\ pc # "ready" /\ AllScalar(call.values)) =>
    /\ pc \in {"returned", "panicked"}
    /\ (pc = "returned") <=> (TrueHeaderLength <= 126)
    /\ pc = "returned" =>
         /\ Appended[1] = TrueHeaderLength
         /\ Len(Appended) = TrueHeaderLength + Len(RefContents(call.values))

\* C6 witness: 126 Nulls, whose header would be 127 bytes long, aborted.
C6_Witness ==
  /\ call.op = "serialize"
  /\ call.values = Rep(Null, 126)
  /\ pc = "panicked"

SerializedOneInteger ==
  SerializeReturned /\ Len(call.values) = 1 /\ call.values[1].type = "Integer"

\* C7: the content bytes serialize emits for Integer(i), read as a
\* big-endian integer of the width the serial-type byte announces and
\* sign-extended to 64 bits, give i back.
C7_IntegerRoundTrip ==
  SerializedOneInteger =>
    LET w == WidthOfCode(Appended[2])
        content == SubSeq(Appended, 3, Len(Appended))
    IN /\ Len(content) = w
       /\ SignExtend(content) = call.values[1].i

\* C7 witness: the lower 48-bit bound went out as 0x800000000000.
C7_Witness ==
  /\ SerializedOneInteger
  /\ call.values[1].i = <<255, 255, 128, 0, 0, 0, 0, 0>>
  /\ SubSeq(Appended, 3, Len(Appended)) = <<128, 0, 0, 0, 0, 0>>

FixedCodes ==
  {<<"Null", 0>>, <<"I8", 1>>, <<"I16", 2>>, <<"I24", 3>>, <<"I32", 4>>, <<"I48", 5>>,
   <<"I64", 6>>, <<"F64", 7>>}

\* The serial type a code of 12 or more stands for.
DecodeCode(c) ==
  IF c % 2 = 0 THEN [kind |-> "Blob", content_size |-> (c - 12) \div 2]
  ELSE [kind |-> "Text", content_size |-> (c - 13) \div 2]

CodeComputed == call.op = "u64_from" /\ pc = "returned"

\* C8: the code is Null=0, I8=1, I16=2, I24=3, I32=4, I48=5, I64=6, F64=7,
\* Text of n bytes = 2n+13, Blob of n bytes = 2n+12; no other serial type has
\* the same code, and a code of 12 or more decodes to the kind and length it
\* came from.
C8_CodeInvertible ==
  CodeComputed =>
    LET st == call.serial_type
        c == ret.value
    IN /\ \A row \in FixedCodes : st.kind = row[1] => c = row[2]
       /\ st.kind = "Text" => c = 2 * st.content_size + 13
       /\ st.kind = "Blob" => c = 2 * st.content_size + 12
       /\ \A other \in SerialTypes : other # st => u64_from(other) # c
       /\ st.kind \in {"Text", "Blob"} => c >= 12 /\ DecodeCode(c) = st

\* C8 witness: a text of 5 bytes got the code 23.
C8_Witness ==
  /\ CodeComputed
  /\ call.serial_type = [kind |-> "Text", content_size |-> 5]
  /\ ret.value = 23

(***************************************************************************)
(* Reference order of the scalar values                                    *)
(***************************************************************************)
Orderings == {"Less", "Equal", "Greater"}

Reverse(ordering) ==
  CASE ordering = "Less" -> "Greater"
    [] ordering = "Equal" -> "Equal"
    [] ordering = "Greater" -> "Less"

IsScalar(v) == v.type \in {"Null", "Integer", "Float", "Text", "Blob"}

ClassRank(v) ==
  CASE v.type = "Null" -> 0
    [] v.type \in {"Integer", "Float"} -> 1
    [] v.type = "Text" -> 2
    [] v.type = "Blob" -> 3

\* |x| against |y| for finite floats, by the values mant * 2^pow.
RefMagnitudeOrder(x, y) ==
  LET low == IF F64Pow(x) < F64Pow(y) THEN F64Pow(x) ELSE F64Pow(y)
  IN BitsCmp(F64Mant(x) \o Zeros(F64Pow(x) - low), F64Mant(y) \o Zeros(F64Pow(y) - low))

\* Two floats by the numbers they denote; a NaN denotes none.
RefFloatOrder(x, y) ==
  LET Side(f) == IF F64IsZero(f) THEN 0 ELSE IF F64Sign(f) = 1 THEN -1 ELSE 1
      Magnitude(a, b) ==
        CASE F64IsInf(a) /\ F64IsInf(b) -> "Equal"
          [] F64IsInf(a) /\ ~F64IsInf(b) -> "Greater"
          [] ~F64IsInf(a) /\ F64IsInf(b) -> "Less"
          [] ~F64IsInf(a) /\ ~F64IsInf(b) -> RefMagnitudeOrder(a, b)
  IN CASE F64IsNaN(x) \/ F64IsNaN(y) -> "Unordered"
       [] ~(F64IsNaN(x) \/ F64IsNaN(y)) /\ Side(x) < Side(y) -> "Less"
       [] ~(F64IsNaN(x) \/ F64IsNaN(y)) /\ Side(x) > Side(y) -> "Greater"
       [] ~(F64IsNaN(x) \/ F64IsNaN(y)) /\ Side(x) = Side(y) ->
            IF Side(x) = 0 THEN "Equal"
            ELSE IF Side(x) = 1 THEN Magnitude(x, y)
            ELSE Magnitude(y, x)

RefNumericOrder(a, b) ==
  IF a.type = "Integer" /\ b.type = "Integer" THEN I64Cmp(a.i, b.i)
  ELSE RefFloatOrder(IF a.type = "Integer" THEN I64ToF64(a.i) ELSE a.f,
                     IF b.type = "Integer" THEN I64ToF64(b.i) ELSE b.f)

RefOrder(a, b) ==
  CASE ClassRank(a) < ClassRank(b) -> "Less"
    [] ClassRank(a) > ClassRank(b) -> "Greater"
    [] ClassRank(a) = ClassRank(b) ->
         (CASE a.type = "Null" -> "Equal"
            [] IsNumeric(a) -> RefNumericOrder(a, b)
            [] a.type = "Text" -> SeqCmp(a.t.value, b.t.value)
            [] a.type = "Blob" -> SeqCmp(a.b, b.b))

ScalarCompared ==
  /\ call.op \in {"partial_cmp", "cmp"}
  /\ pc # "ready"
  /\ IsScalar(call.self)
  /\ IsScalar(call.other)

HoldsNaN(v) == v.type = "Float" /\ F64IsNaN(v.f)

(***************************************************************************)
(* Claims about the comparator (checked under SpecCmp)                     *)
(***************************************************************************)
\* C4: for any two values among Null, Integer, Float, Text and Blob,
\* partial_cmp and cmp return the result of the reference order (class rank
\* Null < numeric < Text < Blob; Null Equal to Null; numerics by numeric
\* value with an Integer promoted to Float against a Float; Texts and Blobs
\* byte-wise lexicographic).
C4_ReferenceOrder ==
  ScalarCompared =>
    /\ pc = "returned"
    /\ ret.value \in Orderings
    /\ ret.value = RefOrder(call.self, call.other)

\* The comparator agrees with the reference order on every pair that holds
\* no NaN.
CmpMatchesReferenceWithoutNaN ==
  (ScalarCompared /\ ~HoldsNaN(call.self) /\ ~HoldsNaN(call.other)) =>
    /\ pc = "returned"
    /\ ret.value = RefOrder(call.self, call.other)

\* C5: cmp is a total order over the Null, Integer, Float, Text and Blob
\* values: it returns for every pair, cmp(a, b) is the reverse of cmp(b, a),
\* cmp(a, a) is Equal, and cmp(a, b) <= Equal with cmp(b, c) <= Equal imply
\* cmp(a, c) <= Equal.
C5_TotalOrder ==
  (ScalarCompared /\ call.op = "cmp") =>
    /\ pc = "returned"
    /\ cmp(call.other, call.self) = Returned(Reverse(ret.value))
    /\ call.self = call.other => ret.value = "Equal"
    /\ \A c \in ScalarCmpValues :
         LET bc == cmp(call.other, c)
             ac == cmp(call.self, c)
         IN (ret.value # "Greater" /\ bc.status = "returned" /\ bc.value # "Greater")
              => (ac.status = "returned" /\ ac.value # "Greater")

(***************************************************************************)
(* Claims about the arithmetic (checked under SpecArith)                   *)
(***************************************************************************)
Added == call.op \in {"add", "add_assign"} /\ pc # "ready"

Divided == call.op \in {"div", "div_assign"} /\ pc # "ready"

\* v == v fails exactly for the values that hold a NaN.
SelfEqual(v) == OwnedValue_eq(v, v)

AddUnsupported(lhs, rhs) ==
  /\ lhs.type # "Null"
  /\ rhs.type # "Null"
  /\ ~(IsNumeric(lhs) /\ IsNumeric(rhs))
  /\ ~(lhs.type = "Text" /\ (rhs.type = "Text" \/ IsNumeric(rhs)))
  /\ ~(IsNumeric(lhs) /\ rhs.type = "Text")

\* The operand combinations / has no rule for: a Text, Blob, Agg or Record
\* on either side (Text / Integer, Blob / Float, ...).  A Null operand of /
\* is left out, for being named neither supported nor unsupported.
DivUnsupported(lhs, rhs) ==
  /\ lhs.type # "Null"
  /\ rhs.type # "Null"
  /\ ~(IsNumeric(lhs) /\ IsNumeric(rhs))

\* C10: + or / applied to an unsupported operand combination aborts; it
\* never returns a default value such as Float(0.0).
C10_UnsupportedAborts ==
  /\ (Added /\ AddUnsupported(call.lhs, call.rhs)) => pc = "panicked"
  /\ (Divided /\ DivUnsupported(call.lhs, call.rhs)) => pc = "panicked"

\* What the code does instead: every unsupported combination returns
\* Float(0.0).
UnsupportedReturnsZero ==
  /\ (Added /\ AddUnsupported(call.lhs, call.rhs)) => ret = Returned(Float(F64_ZERO))
  /\ (Divided /\ DivUnsupported(call.lhs, call.rhs)) => ret = Returned(Float(F64_ZERO))

(***************************************************************************)
(* Claims about aggregates, records and text subtypes (checked under       *)
(* SpecCmp)                                                                *)
(***************************************************************************)
\* The value an operand stands for: the final value of an Agg, the operand
\* itself otherwise.
Final(v) == IF v.type = "Agg" THEN final_value(v.a) ELSE v

\* A comparison with an Agg on either side and no Record on the other.
AggCompared ==
  /\ call.op \in {"partial_cmp", "cmp"}
  /\ pc # "ready"
  /\ call.self.type = "Agg" \/ call.other.type = "Agg"
  /\ call.self.type # "Record"
  /\ call.other.type # "Record"

\* What comparing the final values gives, for the operation called.
FinalValuesCompared ==
  IF call.op = "cmp" THEN cmp(Final(call.self), Final(call.other))
  ELSE Returned(partial_cmp(Final(call.self), Final(call.other)))

\* C11: comparing Agg(a) with any v (Null, Integer, Float, Text, Blob or
\* another Agg of any kind), in either operand order, gives the result of
\* comparing a.final_value() with v (v replaced by its own final value when
\* it is an Agg); so a never-updated Max compares Equal to Null, and two
\* aggregates of different kinds compare by their final values.
C11_AggByFinalValue == AggCompared => ret = FinalValuesCompared

\* Where the code does compare by final values: everywhere but an Agg
\* whose final value is Null against Null, and two aggregates of different
\* kinds.
AggByFinalValueElsewhere ==
  (AggCompared
     /\ ~(Final(call.self) = Null /\ Final(call.other) = Null)
     /\ ((call.self.type = "Agg" /\ call.other.type = "Agg")
           => call.self.a.kind = call.other.a.kind))
    => ret = FinalValuesCompared

\* The result of the value comparator on two fields, for the operation
\* called on the records.
FieldResult(op, x, y) ==
  IF op \in {"cmp", "OwnedRecord_cmp"} THEN cmp(x, y)
  ELSE PartialCmpResult(partial_cmp(x, y))

\* Field-wise comparison of two field sequences of one length: the result
\* on the first position whose fields do not compare Equal, Equal if none.
FieldWise(op, left, right) ==
  LET differ == {k \in 1..Len(left) : FieldResult(op, left[k], right[k]) # Returned("Equal")}
  IN IF differ = {} THEN Returned("Equal")
     ELSE FieldResult(op, left[CHOOSE k \in differ : \A j \in differ : k <= j],
                      right[CHOOSE k \in differ : \A j \in differ : k <= j])

\* Two OwnedRecord values of one length were compared.
OwnedRecordsCompared ==
  /\ call.op \in {"OwnedRecord_partial_cmp", "OwnedRecord_cmp"}
  /\ pc # "ready"
  /\ Len(call.self.values) = Len(call.other.values)

\* Two OwnedValue::Record values of one length were compared through the
\* value comparator.
RecordValuesCompared ==
  /\ call.op \in {"partial_cmp", "cmp"}
  /\ pc # "ready"
  /\ call.self.type = "Record"
  /\ call.other.type = "Record"
  /\ Len(call.self.values) = Len(call.other.values)

\* C12: comparing two records of equal length is field-wise in sequence
\* order (the comparator's result on the first position whose fields do not
\* compare Equal, Equal when there is none), both for two OwnedRecord values
\* and for two OwnedValue::Record values compared through the value
\* comparator, which returns a result rather than aborting.
C12_RecordFieldWise ==
  /\ OwnedRecordsCompared => ret = FieldWise(call.op, call.self.values, call.other.values)
  /\ RecordValuesCompared =>
       /\ pc = "returned"
       /\ ret = FieldWise(call.op, call.self.values, call.other.values)

\* The half of C12 the code keeps: two OwnedRecord values compare
\* field-wise.
OwnedRecordFieldWise ==
  OwnedRecordsCompared => ret = FieldWise(call.op, call.self.values, call.other.values)

\* What the code does with two OwnedValue::Record values: it panics.
RecordValuesAbort == RecordValuesCompared => ret = Panicked("todo")

\* The value with the subtype of a Text set to plain text.
Plain(v) == IF v.type = "Text" THEN build_text(v.t.value) ELSE v

\* ==, partial_cmp or cmp was applied with a Text on either side.
TextCompared ==
  /\ call.op \in {"eq", "partial_cmp", "cmp"}
  /\ pc # "ready"
  /\ call.self.type = "Text" \/ call.other.type = "Text"

\* What the operation called gives on a and b.
ResultOn(a, b) ==
  CASE call.op = "eq" -> Returned(OwnedValue_eq(a, b))
    [] call.op = "cmp" -> cmp(a, b)
    [] call.op = "partial_cmp" -> FieldResult("partial_cmp", a, b)

\* C13: the text subtype never affects equality or ordering: the results of
\* == and of the comparator are those for the same operands with every Text
\* taken as plain text; so plain Text(s) and JSON Text(s) are == and compare
\* Equal, and against any other value both subtypes give one result.
C13_SubtypeIgnored == TextCompared => ret = ResultOn(Plain(call.self), Plain(call.other))

\* The half of C13 the code keeps: the subtype never affects the
\* comparator.
SubtypeIgnoredByComparator ==
  (TextCompared /\ call.op # "eq") => ret = ResultOn(Plain(call.self), Plain(call.other))

(***************************************************************************)
(* Claim about the buffer of serialize (checked under SpecCodec)           *)
(***************************************************************************)
\* The bytes serialize produces for a record on an empty buffer.
Encoding(values) == serialize(values, <<>>).buf

\* C14: serialize only appends: when it returns, the buffer is its initial
\* content P followed by exactly the bytes serialize produces for the record
\* on an empty buffer; P and the record are unchanged, so serializing r1 and
\* then r2 into one buffer yields the encoding of r1 immediately followed by
\* the encoding of r2.
C14_AppendOnly ==
  /\ [](SerializeReturned =>
          /\ buf = call.buf \o Encoding(call.values)
          /\ "first" \in DOMAIN call =>
               buf = call.first.buf \o Encoding(call.first.values) \o Encoding(call.values))
  /\ [][(pc = "ready" /\ call.op = "serialize") => call' = call]_vars

\* C14 witness: the records of the two tests serialized one after the other
\* into a buffer that held two bytes; the buffer is those two bytes and the
\* two encodings.
C14_Witness ==
  /\ SerializeReturned
  /\ "first" \in DOMAIN call
  /\ call.first.buf = <<170, 187>>
  /\ call.first.values # call.values
  /\ call.first.values \in TestRecords
  /\ call.values \in TestRecords
  /\ buf = <<170, 187>> \o Encoding(call.first.values) \o Encoding(call.values)
  /\ Len(buf) > Len(call.buf)

(***************************************************************************)
(* Claim about the promotion rules of + (checked under SpecArith)          *)
(***************************************************************************)
\* x + y by sign and magnitude: the sign and magnitude of the exact sum,
\* and whether it fits an i64.
ExactSum(x, y) ==
  LET mx == I64Magnitude(x)
      my == I64Magnitude(y)
      order == BitsCmp(mx, my)
      neg == IF I64IsNeg(x) = I64IsNeg(y) THEN I64IsNeg(x)
             ELSE IF order = "Greater" THEN I64IsNeg(x)
             ELSE IF order = "Less" THEN I64IsNeg(y)
             ELSE FALSE
      mag == StripZeros(IF I64IsNeg(x) = I64IsNeg(y) THEN BitsAdd(mx, my)
                        ELSE IF order = "Less" THEN BitsSub(my, mx)
                        ELSE BitsSub(mx, my))
      limit == <<1>> \o Zeros(63)
  IN [neg |-> neg, mag |-> mag,
      fits |-> BitsCmp(mag, limit) = "Less" \/ (neg /\ mag = limit)]

\* The magnitude the decimal digits stand for, after the digits that gave
\* acc (next = next holds always and has the step evaluated before the
\* next one).
RECURSIVE DecimalValueFrom(_, _)
DecimalValueFrom(digits, acc) ==
  IF digits = <<>> THEN acc
  ELSE LET next == StripZeros(BitsAdd(BitsAdd(acc \o <<0, 0, 0>>, acc \o <<0>>),
                                      NatToBits(Head(digits) - 48, 4)))
       IN IF next = next THEN DecimalValueFrom(Tail(digits), next) ELSE acc

\* The magnitude a string of decimal digits stands for.
DecimalValue(digits) == DecimalValueFrom(digits, <<>>)

\* d is the integer i written in decimal: a minus sign if negative, then
\* digits without leading zeros that stand for the magnitude of i.
IsDecimalOf(d, i) ==
  LET neg == d # <<>> /\ d[1] = 45
      digits == IF neg THEN Tail(d) ELSE d
  IN /\ neg = I64IsNeg(i)
     /\ digits # <<>>
     /\ \A k \in 1..Len(digits) : digits[k] \in 48..57
     /\ Len(digits) > 1 => digits[1] # 48
     /\ DecimalValue(digits) = I64Magnitude(i)

\* The operation returned a Text whose payload is left followed by right.
ReturnedTextOf(left, right) ==
  /\ pc = "returned"
  /\ ret.value.type = "Text"
  /\ ret.value.t.value = left \o right
  /\ OwnedValue_eq(ret.value, build_text(left \o right))

\* C15: + follows the promotion rules: Integer + Integer is the Integer
\* holding the exact sum when the sum fits 64 bits; an Integer and a Float in
\* either order give a Float; Text + Text gives the Text of the left payload
\* followed by the right payload; Text + Integer and Integer + Text give the
\* Text of the two operands in operand order, the integer written in
\* decimal.
C15_Promotion ==
  Added =>
    LET l == call.lhs
        r == call.rhs
    IN /\ (l.type = "Integer" /\ r.type = "Integer" /\ ExactSum(l.i, r.i).fits) =>
            ret = Returned(Integer(I64OfMagnitude(ExactSum(l.i, r.i).neg,
                                                  ExactSum(l.i, r.i).mag)))
       /\ (l.type = "Integer" /\ r.type = "Float") \/ (l.type = "Float" /\ r.type = "Integer") =>
            (pc = "returned" /\ ret.value.type = "Float")
       /\ (l.type = "Text" /\ r.type = "Text") => ReturnedTextOf(l.t.value, r.t.value)
       /\ (l.type = "Text" /\ r.type = "Integer") =>
            /\ pc = "returned"
            /\ ret.value.type = "Text"
            /\ Len(ret.value.t.value) > Len(l.t.value)
            /\ ReturnedTextOf(l.t.value,
                 SubSeq(ret.value.t.value, Len(l.t.value) + 1, Len(ret.value.t.value)))
            /\ IsDecimalOf(SubSeq(ret.value.t.value, Len(l.t.value) + 1,
                                  Len(ret.value.t.value)), r.i)
       /\ (l.type = "Integer" /\ r.type = "Text") =>
            /\ pc = "returned"
            /\ ret.value.type = "Text"
            /\ Len(ret.value.t.value) > Len(r.t.value)
            /\ ReturnedTextOf(SubSeq(ret.value.t.value, 1,
                                     Len(ret.value.t.value) - Len(r.t.value)), r.t.value)
            /\ IsDecimalOf(SubSeq(ret.value.t.value, 1,
                                  Len(ret.value.t.value) - Len(r.t.value)), l.i)

\* C15 witness: Text("a") + Integer(-1) returned Text("a-1").
C15_Witness ==
  /\ Added
  /\ call.op = "add"
  /\ call.lhs = build_text(<<97>>)
  /\ call.rhs = Integer(I64(-1))
  /\ ret = Returned(build_text(<<97, 45, 49>>))

====
